---------------------------- MODULE Spec2Model ----------------------------
(***************************************************************************)
(* The record-ledger replay of fpo-records: checker.py (validation mode,   *)
(* check_files) and wrapped.py (analytics mode, build_report), run side by *)
(* side on the same directory of result files.                             *)
(*                                                                         *)
(* Text (file names, CSV fields, keys) is a sequence of one-character      *)
(* strings, so that the regular expression, str.strip, str.split, int()    *)
(* and float() are computed and not assumed.  A Python float is a record   *)
(* [nan, v]: float("nan") parses, and every comparison with it is False.   *)
(***************************************************************************)
EXTENDS Integers, Sequences, FiniteSets, TLC

VARIABLES
    listing,              \* root.iterdir(): the directory entries, in enumeration order
    target_year,          \* wrapped.py: args.year
    c_pc,                 \* checker.py: "init", "loop", "returned"
    w_pc,                 \* wrapped.py: "init", "loop", "returned", "raised" (ValueError)
    c_files,              \* checker.py main: files = sorted_record_files(root)
    w_files,              \* wrapped.py build_report: files = sorted_event_files(root)
    file_index,           \* position of the file being read in the file list (0: none yet)
    line_no,              \* checker.py read_rows: idx of the row read last in this file
    row,                  \* the raw csv row read last (a sequence of fields)
    rows_read,            \* raw rows read so far, over all files
    min_columns,          \* history: the fewest columns of a raw row read so far
    c_records,            \* checker.py check_files: records
    c_warnings,           \* checker.py check_files: warnings
    c_stdout,             \* checker.py read_rows: the "Skipping row" lines printed
    c_seen,               \* history: the (key, weight, file) checker.read_rows has yielded
    w_records,            \* wrapped.py build_report: records
    total_broken,
    new_records,
    location_counts,
    name_counts,
    name_counts_untested,
    name_counts_tested,
    increase_events,
    open_increase_events,
    name_increase_totals,
    total_increase,
    w_seen,               \* history: the (key, weight, file) wrapped.read_rows has yielded
    w_stdout              \* wrapped.py print_report: the sections printed (None: not yet)

vars == <<listing, target_year, c_pc, w_pc, c_files, w_files, file_index, line_no,
          row, rows_read, min_columns,
          c_records, c_warnings, c_stdout, c_seen, w_records, total_broken,
          new_records, location_counts, name_counts, name_counts_untested,
          name_counts_tested, increase_events, open_increase_events,
          name_increase_totals, total_increase, w_seen, w_stdout>>

c_vars == <<c_records, c_warnings, c_stdout, c_seen>>

w_vars == <<w_records, total_broken, new_records, location_counts, name_counts,
            name_counts_untested, name_counts_tested, increase_events,
            open_increase_events, name_increase_totals, total_increase, w_seen>>

----------------------------------------------------------------------------
(* Bounds of the model.                                                    *)

\* Raw csv rows read over the whole replay.
MaxRows == 3

\* Directory entries handed to the sequencers alone (SpecSeq).
MaxListing == 3

\* Raw csv rows read over a replay of the report's rows (SpecReport).
MaxReportRows == 4

----------------------------------------------------------------------------
(* Text.                                                                   *)

Digits == <<"0","1","2","3","4","5","6","7","8","9">>

Upper == <<"A","B","C","D","E","F","G","H","I","J","K","L","M","N","O","P","Q","R","S","T","U","V","W","X","Y","Z">>

Lower == <<"a","b","c","d","e","f","g","h","i","j","k","l","m","n","o","p","q","r","s","t","u","v","w","x","y","z">>

IndexOf(c, s) == CHOOSE i \in 1..Len(s) : s[i] = c

Range(s) == {s[i] : i \in 1..Len(s)}

\* ord(c): the code point of a character of the model's alphabet.
Ord(c) ==
    IF c \in Range(Digits) THEN 47 + IndexOf(c, Digits)
    ELSE IF c \in Range(Upper) THEN 64 + IndexOf(c, Upper)
    ELSE IF c \in Range(Lower) THEN 96 + IndexOf(c, Lower)
    ELSE CASE c = "\t" -> 9
           [] c = "\n" -> 10
           [] c = " " -> 32
           [] c = "+" -> 43
           [] c = "-" -> 45
           [] c = "." -> 46
           [] c = "|" -> 124

\* Python's str < str: lexicographic by code point, a proper prefix first.
RECURSIVE StrLess(_, _)
StrLess(a, b) ==
    IF b = <<>> THEN FALSE
    ELSE IF a = <<>> THEN TRUE
    ELSE IF a[1] # b[1] THEN Ord(a[1]) < Ord(b[1])
    ELSE StrLess(Tail(a), Tail(b))

IsDigit(c) == c \in Range(Digits)

IsSpace(c) == c \in {" ", "\t", "\n"}

AllDigits(s) == \A i \in 1..Len(s) : IsDigit(s[i])

\* int(s) of a string of decimal digits.
RECURSIVE int(_)
int(s) ==
    IF s = <<>> THEN 0
    ELSE 10 * int(SubSeq(s, 1, Len(s) - 1)) + (Ord(s[Len(s)]) - 48)

RECURSIVE lstrip(_)
lstrip(s) == IF s = <<>> \/ ~IsSpace(s[1]) THEN s ELSE lstrip(Tail(s))

RECURSIVE rstrip(_)
rstrip(s) ==
    IF s = <<>> \/ ~IsSpace(s[Len(s)]) THEN s ELSE rstrip(SubSeq(s, 1, Len(s) - 1))

\* str.strip(): leading and trailing whitespace removed.
strip(s) == rstrip(lstrip(s))

\* str.endswith(suffix)
endswith(s, suffix) ==
    /\ Len(suffix) <= Len(s)
    /\ SubSeq(s, Len(s) - Len(suffix) + 1, Len(s)) = suffix

\* str.split(sep) for a one-character separator: the list of parts.
RECURSIVE split(_, _)
split(s, sep) ==
    IF s = <<>> THEN <<<<>>>>
    ELSE LET rest == split(Tail(s), sep)
         IN  IF s[1] = sep THEN <<<<>>>> \o rest
             ELSE <<<<s[1]>> \o rest[1]>> \o Tail(rest)

----------------------------------------------------------------------------
(* Floats: float(text), and the IEEE comparisons Python applies.           *)

NaN == [nan |-> TRUE, v |-> 0]

Num(n) == [nan |-> FALSE, v |-> n]

\* float(text) raises ValueError unless this holds.  float() accepts more
\* spellings (signs, fractions, exponents, inf); the csv fields of the model
\* are decimal digit strings, "nan", or text float() rejects.
float_parses(text) ==
    LET t == strip(text)
    IN  \/ t # <<>> /\ AllDigits(t)
        \/ t = <<"n","a","n">>

float(text) ==
    LET t == strip(text)
    IN  IF t = <<"n","a","n">> THEN NaN ELSE Num(int(t))

\* a > b
FGt(a, b) == ~a.nan /\ ~b.nan /\ a.v > b.v

\* a <= b
FLe(a, b) == ~a.nan /\ ~b.nan /\ a.v <= b.v

\* a == b
FEq(a, b) == ~a.nan /\ ~b.nan /\ a.v = b.v

\* a - b
FSub(a, b) == IF a.nan \/ b.nan THEN NaN ELSE Num(a.v - b.v)

\* a < b
FLt(a, b) == ~a.nan /\ ~b.nan /\ a.v < b.v

\* a + b
FAdd(a, b) == IF a.nan \/ b.nan THEN NaN ELSE Num(a.v + b.v)

----------------------------------------------------------------------------
(* File names and the sequencers.                                          *)

None == <<>>

\* FILE_PATTERN.match(name): ^(\d{4})(?:-(\d{2})-(\d{2}))?\.csv$  (the groups,
\* or None).  The end anchor also matches just before a final newline.
FILE_PATTERN(name) ==
    LET n == IF name # <<>> /\ name[Len(name)] = "\n"
             THEN SubSeq(name, 1, Len(name) - 1) ELSE name
    IN  IF Len(n) = 8 /\ AllDigits(SubSeq(n, 1, 4)) /\ SubSeq(n, 5, 8) = <<".","c","s","v">>
        THEN <<SubSeq(n, 1, 4), None, None>>
        ELSE IF /\ Len(n) = 14
                /\ AllDigits(SubSeq(n, 1, 4))
                /\ n[5] = "-"
                /\ AllDigits(SubSeq(n, 6, 7))
                /\ n[8] = "-"
                /\ AllDigits(SubSeq(n, 9, 10))
                /\ SubSeq(n, 11, 14) = <<".","c","s","v">>
        THEN <<SubSeq(n, 1, 4), SubSeq(n, 6, 7), SubSeq(n, 9, 10)>>
        ELSE None

\* checker.py parse_filename: (year, month, day), or None
parse_filename(name) ==
    LET match == FILE_PATTERN(name)
    IN  IF match = None THEN None
        ELSE <<int(match[1]),
               IF match[2] # None THEN int(match[2]) ELSE 0,
               IF match[3] # None THEN int(match[3]) ELSE 0>>

\* wrapped.py parse_filename
w_parse_filename(name) ==
    LET match == FILE_PATTERN(name)
    IN  IF match = None THEN None
        ELSE <<int(match[1]),
               IF match[2] # None THEN int(match[2]) ELSE 0,
               IF match[3] # None THEN int(match[3]) ELSE 0>>

\* The sort key of both sequencers, compared as Python compares tuples:
\* (year, month, day, name).
KeyLess(a, b) ==
    LET p == a[1]
        q == b[1]
    IN  \/ p[1] < q[1]
        \/ p[1] = q[1] /\ p[2] < q[2]
        \/ p[1] = q[1] /\ p[2] = q[2] /\ p[3] < q[3]
        \/ p[1] = q[1] /\ p[2] = q[2] /\ p[3] = q[3] /\ StrLess(a[2], b[2])

\* list.sort(key=...): stable, ascending.  Insertion after every item that
\* is not greater keeps equal keys in their order.
RECURSIVE Insert(_, _)
Insert(item, sorted) ==
    IF sorted = <<>> THEN <<item>>
    ELSE IF KeyLess(item, sorted[1]) THEN <<item>> \o sorted
    ELSE <<sorted[1]>> \o Insert(item, Tail(sorted))

RECURSIVE sort(_)
sort(files) ==
    IF files = <<>> THEN <<>>
    ELSE Insert(files[Len(files)], sort(SubSeq(files, 1, Len(files) - 1)))

\* The loop of sorted_record_files: the (parsed, path) pairs of the entries
\* that are files and whose name parses, in enumeration order.
RECURSIVE Collect(_)
Collect(entries) ==
    IF entries = <<>> THEN <<>>
    ELSE LET path == entries[1]
             parsed == parse_filename(path.name)
         IN  IF ~path.is_file \/ parsed = None
             THEN Collect(Tail(entries))
             ELSE <<<<parsed, path.name>>>> \o Collect(Tail(entries))

RECURSIVE w_Collect(_)
w_Collect(entries) ==
    IF entries = <<>> THEN <<>>
    ELSE LET path == entries[1]
             parsed == w_parse_filename(path.name)
         IN  IF ~path.is_file \/ parsed = None
             THEN w_Collect(Tail(entries))
             ELSE <<<<parsed, path.name>>>> \o w_Collect(Tail(entries))

\* checker.py sorted_record_files
sorted_record_files(root) == sort(Collect(root))

\* wrapped.py sorted_event_files
sorted_event_files(root) == sort(w_Collect(root))

----------------------------------------------------------------------------
(* The classification keyspace (checker.py).                               *)

SEXES == <<<<"M">>, <<"F">>>>

MALE_CLASSES ==
    <<<<"5","2">>, <<"5","6">>, <<"6","0">>, <<"6","7",".","5">>, <<"7","5">>, <<"8","2",".","5">>, <<"9","0">>, <<"1","0","0">>, <<"1","1","0">>, <<"1","2","5">>,
      <<"1","4","0">>, <<"S","H","W">>>>

FEMALE_CLASSES ==
    <<<<"4","4">>, <<"4","8">>, <<"5","2">>, <<"5","6">>, <<"6","0">>, <<"6","7",".","5">>, <<"7","5">>, <<"8","2",".","5">>, <<"9","0">>, <<"1","0","0">>,
      <<"1","1","0">>, <<"S","H","W">>>>

DIVISIONS ==
    <<<<"O","p","e","n">>, <<"Y","o","u","t","h">>, <<"T","1","3","-","1","5">>, <<"T","1","6","-","1","7">>, <<"T","1","8","-","1","9">>, <<"J","2","0","-","2","3">>, <<"M","4","0","-","4","4">>,
      <<"M","4","5","-","4","9">>, <<"M","5","0","-","5","4">>, <<"M","5","5","-","5","9">>, <<"M","6","0","-","6","4">>, <<"M","6","5","-","6","9">>, <<"M","7","0","-","7","4">>, <<"M","7","5","-","7","9">>,
      <<"M","8","0","+">>>>

LIFTS == <<<<"S">>, <<"B">>, <<"D">>, <<"S","B","D">>>>

EVENTS == <<<<"S","B","D">>, <<"B">>, <<"D">>>>

EQUIPMENT ==
    <<<<"R","a","w">>, <<"W","r","a","p","s">>, <<"S","l","e","e","v","e","s">>, <<"B","a","r","e">>, <<"S","i","n","g","l","e","-","p","l","y">>, <<"M","u","l","t","i","-","p","l","y">>, <<"U","n","l","i","m","i","t","e","d">>>>

\* f"{sex}|{division}|{event}|{eq}|{weight}|{lift}"
KeyString(sex, division, event, eq, weight, lift) ==
    sex \o <<"|">> \o division \o <<"|">> \o event \o <<"|">> \o eq \o <<"|">> \o weight
        \o <<"|">> \o lift

divisions_add_tested == Range(DIVISIONS) \cup {div \o <<"-","D">> : div \in Range(DIVISIONS)}

valid_lift(lift, event) ==
    (lift = <<"B">> /\ event = <<"B">>) \/ (lift = <<"D">> /\ event = <<"D">>) \/ event = <<"S","B","D">>

\* Fault variant of valid_equipment: the test on "Unlimited" left out.
valid_equipment_unlimited_anywhere(eq, event, lift) ==
    LET invalid_bench_dead_eq ==
            lift \in {<<"B">>, <<"D">>} /\ eq \in {<<"B","a","r","e">>, <<"S","l","e","e","v","e","s">>, <<"W","r","a","p","s">>}
        invalid_squat_total_eq == lift \in {<<"S">>, <<"S","B","D">>} /\ eq = <<"R","a","w">>
    IN  ~(invalid_bench_dead_eq \/ invalid_squat_total_eq)

\* The equipment tests of valid_keyset: TRUE when the loop reaches keys.add.
valid_equipment(eq, event, lift) ==
    LET invalid_bench_dead_eq ==
            lift \in {<<"B">>, <<"D">>} /\ eq \in {<<"B","a","r","e">>, <<"S","l","e","e","v","e","s">>, <<"W","r","a","p","s">>}
        invalid_squat_total_eq == lift \in {<<"S">>, <<"S","B","D">>} /\ eq = <<"R","a","w">>
    IN  /\ ~(eq = <<"U","n","l","i","m","i","t","e","d">> /\ ~(event = <<"B">> /\ lift = <<"B">>))
        /\ ~(invalid_bench_dead_eq \/ invalid_squat_total_eq)

valid_keyset ==
    UNION {
        LET weight_classes == IF sex = <<"M">> THEN MALE_CLASSES ELSE FEMALE_CLASSES
        IN  {KeyString(sex, c[1], c[2], c[4], weight, c[3]) :
                c \in {d \in divisions_add_tested \X Range(EVENTS) \X Range(LIFTS)
                                \X Range(EQUIPMENT) :
                          valid_lift(d[3], d[2]) /\ valid_equipment(d[4], d[2], d[3])},
                weight \in Range(weight_classes)}
        : sex \in Range(SEXES)}

\* check_files: known_keys = valid_keyset()
known_keys == valid_keyset

----------------------------------------------------------------------------
(* Dates (wrapped.py make_date, datetime.date).                            *)

IsLeap(y) == (y % 4 = 0 /\ y % 100 # 0) \/ y % 400 = 0

DaysInMonth(y, m) ==
    IF m = 2 THEN (IF IsLeap(y) THEN 29 ELSE 28)
    ELSE IF m \in {4, 6, 9, 11} THEN 30 ELSE 31

\* date(year, month, day) raises ValueError unless this holds.
date_valid(year, month, day) ==
    /\ 1 <= year /\ year <= 9999
    /\ 1 <= month /\ month <= 12
    /\ 1 <= day /\ day <= DaysInMonth(year, month)

\* make_date: the arguments it hands to date()
make_date(year, month, day) ==
    [year |-> year,
     month |-> IF month # 0 THEN month ELSE 1,
     day |-> IF day # 0 THEN day ELSE 1]

make_date_raises(year, month, day) ==
    LET d == make_date(year, month, day)
    IN  ~date_valid(d.year, d.month, d.day)

\* date <= date
DateLe(a, b) ==
    \/ a.year < b.year
    \/ a.year = b.year /\ a.month < b.month
    \/ a.year = b.year /\ a.month = b.month /\ a.day <= b.day

----------------------------------------------------------------------------
(* The attempt readers.                                                    *)

\* Fault variant of read_rows: a weight that does not parse is taken as 0.
read_rows_zero_weight(raw) ==
    IF raw = <<>> \/ Len(raw) < 2 THEN <<>>
    ELSE LET key == strip(raw[1])
         IN  IF key = <<>> THEN <<>>
             ELSE <<[key |-> key,
                     weight |-> IF float_parses(raw[2]) THEN float(raw[2]) ELSE Num(0),
                     name |-> IF Len(raw) > 2 THEN strip(raw[3]) ELSE <<>>]>>

\* checker.py read_rows, one raw row: the tuple it yields, or nothing.
read_rows(raw) ==
    IF raw = <<>> \/ Len(raw) < 2 THEN <<>>
    ELSE LET key == strip(raw[1])
         IN  IF key = <<>> THEN <<>>
             ELSE IF ~float_parses(raw[2]) THEN <<>>
             ELSE <<[key |-> key,
                     weight |-> float(raw[2]),
                     name |-> IF Len(raw) > 2 THEN strip(raw[3]) ELSE <<>>]>>

\* checker.py read_rows: the row makes it print "Skipping row with invalid weight".
read_rows_prints(raw) ==
    /\ ~(raw = <<>> \/ Len(raw) < 2)
    /\ strip(raw[1]) # <<>>
    /\ ~float_parses(raw[2])

\* wrapped.py read_rows, one raw row: the ParsedRow it yields, or nothing.
w_read_rows(raw) ==
    IF raw = <<>> \/ Len(raw) < 3 THEN <<>>
    ELSE IF ~float_parses(raw[2]) THEN <<>>
    ELSE <<[key |-> strip(raw[1]),
            weight |-> float(raw[2]),
            name |-> strip(raw[3]),
            location |-> IF Len(raw) > 4 THEN strip(raw[5]) ELSE <<>>]>>

\* Fault variant of is_open_division: the tested form "Open-D" forgotten.
is_open_division_untested_only(key) ==
    LET parts == split(key, "|")
    IN  Len(parts) >= 2 /\ parts[2] = <<"O","p","e","n">>

is_tested(key) ==
    LET parts == split(key, "|")
    IN  IF Len(parts) < 2 THEN FALSE ELSE endswith(parts[2], <<"-","D">>)

is_open_division(key) ==
    LET parts == split(key, "|")
    IN  IF Len(parts) < 2 THEN FALSE ELSE parts[2] \in {<<"O","p","e","n">>, <<"O","p","e","n","-","D">>}

----------------------------------------------------------------------------
(* Python dict and Counter as functions on the keys present.               *)

EmptyDict == <<>>

\* d[k] = v
Put(d, k, v) == [x \in DOMAIN d \cup {k} |-> IF x = k THEN v ELSE d[x]]

\* Counter: counter[k], 0 for a missing key
Count(counter, k) == IF k \in DOMAIN counter THEN counter[k] ELSE 0

\* counter[k] += 1
Incr(counter, k) == Put(counter, k, Count(counter, k) + 1)

\* Fault variant of IncrBy: "=" for "+=".
IncrBy_assign(counter, k, delta) == Put(counter, k, FAdd(Num(0), delta))

\* counter[k] += delta, on floats
IncrBy(counter, k, delta) ==
    Put(counter, k, IF k \in DOMAIN counter THEN FAdd(counter[k], delta)
                    ELSE FAdd(Num(0), delta))

----------------------------------------------------------------------------
(* Validation mode: the body of the loops of check_files.                  *)

NoFilesWarning == [kind |-> "no_files"]

UnrecognizedWarning(key, file, line, name) ==
    [kind |-> "unrecognized", key |-> key, file |-> file, line |-> line, name |-> name]

\* Fault variant of NonIncreasingWarning: "last set in" names the file being read.
NonIncreasingWarning_current_file(key, file, line, weight, prev_weight, prev_source) ==
    [kind |-> "non_increasing", key |-> key, file |-> file, line |-> line,
     weight |-> weight, prev_weight |-> prev_weight, prev_source |-> file]

NonIncreasingWarning(key, file, line, weight, prev_weight, prev_source) ==
    [kind |-> "non_increasing", key |-> key, file |-> file, line |-> line,
     weight |-> weight, prev_weight |-> prev_weight, prev_source |-> prev_source]

\* Fault variant of unrecognized: the membership test inverted.
unrecognized_inverted(key) == key \in known_keys

\* Fault variant of no_files: the empty list goes on to the replay.
no_files_ignored(files) == FALSE

\* if not files
no_files(files) == files = <<>>

\* if key not in known_keys
unrecognized(key) == key \notin known_keys

\* Fault variant of non_increasing: "<" for "<=", so that a tie passes.
non_increasing_strict(weight, prev_weight) == FLt(weight, prev_weight)

\* if weight <= prev_weight
non_increasing(weight, prev_weight) == FLe(weight, prev_weight)

\* Fault variant of check_row: a warning of a kind already given for the key
\* is not given again.
check_row_dedup(records, warnings, file, line, a) ==
    LET given(kind) == \E i \in 1..Len(warnings) :
                           warnings[i].kind = kind /\ warnings[i].key = a.key
        warned ==
            IF unrecognized(a.key) /\ ~given("unrecognized")
            THEN Append(warnings, UnrecognizedWarning(a.key, file, line, a.name))
            ELSE warnings
    IN  IF a.key \notin DOMAIN records
        THEN [records |-> Put(records, a.key, <<a.weight, file>>), warnings |-> warned]
        ELSE LET prev_weight == records[a.key][1]
                 prev_source == records[a.key][2]
             IN  IF non_increasing(a.weight, prev_weight)
                 THEN [records |-> records,
                       warnings |-> IF given("non_increasing") THEN warned
                                    ELSE Append(warned,
                                        NonIncreasingWarning(a.key, file, line, a.weight,
                                                             prev_weight, prev_source))]
                 ELSE [records |-> Put(records, a.key, <<a.weight, file>>),
                       warnings |-> warned]

\* One pass of the inner loop, for the tuple read_rows yielded: the records
\* and the warnings after it.
check_row(records, warnings, file, line, a) ==
    LET warned ==
            IF unrecognized(a.key)
            THEN Append(warnings, UnrecognizedWarning(a.key, file, line, a.name))
            ELSE warnings
    IN  IF a.key \notin DOMAIN records
        THEN [records |-> Put(records, a.key, <<a.weight, file>>), warnings |-> warned]
        ELSE LET prev_weight == records[a.key][1]
                 prev_source == records[a.key][2]
             IN  IF non_increasing(a.weight, prev_weight)
                 THEN [records |-> records,
                       warnings |-> Append(warned,
                           NonIncreasingWarning(a.key, file, line, a.weight,
                                                prev_weight, prev_source))]
                 ELSE [records |-> Put(records, a.key, <<a.weight, file>>),
                       warnings |-> warned]

\* The checker's share of reading one raw row of the file named `file`.
c_step(file, line, raw) ==
    LET yielded == read_rows(raw)
    IN  /\ c_stdout' = IF read_rows_prints(raw)
                       THEN Append(c_stdout, [file |-> file, line |-> line, text |-> raw[2]])
                       ELSE c_stdout
        /\ IF yielded = <<>>
           THEN UNCHANGED <<c_records, c_warnings, c_seen>>
           ELSE LET a == yielded[1]
                    after == check_row(c_records, c_warnings, file, line, a)
                IN  /\ c_records' = after.records
                    /\ c_warnings' = after.warnings
                    /\ c_seen' = c_seen \cup
                           {[key |-> a.key, weight |-> a.weight, file |-> file]}

----------------------------------------------------------------------------
(* Analytics mode: the body of the loops of build_report.                  *)

\* is_new_best = prev_weight is None or row.weight > prev_weight
is_new_best(prev_record, weight) ==
    prev_record = None \/ FGt(weight, prev_record[1])

\* Fault variant of in_target_year: the year filter forgotten.
in_any_year(year) == TRUE

\* year == target_year
in_target_year(year) == year = target_year

\* current_has_exact_date = bool(month and day)
has_exact_date(month, day) == month # 0 /\ day # 0

\* The analytics' share of reading one raw row of the file (parsed, file).
w_step(parsed, file, raw) ==
    LET yielded == w_read_rows(raw)
        year == parsed[1]
        current_date == make_date(parsed[1], parsed[2], parsed[3])
        current_has_exact_date == has_exact_date(parsed[2], parsed[3])
    IN  IF yielded = <<>> THEN UNCHANGED w_vars
        ELSE
        LET r == yielded[1]
            prev_record == IF r.key \in DOMAIN w_records THEN w_records[r.key] ELSE None
            new_best == is_new_best(prev_record, r.weight)
            counted == new_best /\ in_target_year(year)
            improved == counted /\ prev_record # None
            delta == FSub(r.weight, prev_record[1])
            event == [name |-> r.name,
                      key |-> r.key,
                      location |-> r.location,
                      previous |-> prev_record[1],
                      new |-> r.weight,
                      delta |-> delta,
                      previous_date |-> prev_record[2],
                      current_date |-> current_date,
                      previous_has_exact_date |-> prev_record[4],
                      previous_source_file |-> prev_record[3],
                      source_file |-> file]
        IN  /\ w_seen' = w_seen \cup {[key |-> r.key, weight |-> r.weight, file |-> file]}
            /\ total_broken' = IF counted THEN total_broken + 1 ELSE total_broken
            /\ location_counts' =
                   IF counted THEN Incr(location_counts, r.location) ELSE location_counts
            /\ name_counts' = IF counted THEN Incr(name_counts, r.name) ELSE name_counts
            /\ name_counts_tested' =
                   IF counted /\ is_tested(r.key)
                   THEN Incr(name_counts_tested, r.name) ELSE name_counts_tested
            /\ name_counts_untested' =
                   IF counted /\ ~is_tested(r.key)
                   THEN Incr(name_counts_untested, r.name) ELSE name_counts_untested
            /\ new_records' =
                   IF counted /\ prev_record = None THEN new_records + 1 ELSE new_records
            /\ total_increase' =
                   IF improved THEN FAdd(total_increase, delta) ELSE total_increase
            /\ name_increase_totals' =
                   IF improved THEN IncrBy(name_increase_totals, r.name, delta)
                   ELSE name_increase_totals
            /\ increase_events' =
                   IF improved THEN Append(increase_events, event) ELSE increase_events
            /\ open_increase_events' =
                   IF improved /\ is_open_division(r.key)
                   THEN Append(open_increase_events, event) ELSE open_increase_events
            /\ w_records' =
                   IF new_best
                   THEN Put(w_records, r.key,
                            <<r.weight, current_date, file, current_has_exact_date>>)
                   ELSE w_records

----------------------------------------------------------------------------
(* The report: wrapped.py format_increases, format_open_glowups,           *)
(* format_oldest_broken and print_report.                                  *)

\* limit: int = 10
DefaultLimit == 10

\* date.toordinal(): the days from 0001-01-01, counted from 1.
toordinal(d) ==
    LET p == d.year - 1
        before_month[m \in 1..12] ==
            IF m = 1 THEN 0 ELSE before_month[m - 1] + DaysInMonth(d.year, m - 1)
    IN  p * 365 + (p \div 4) - (p \div 100) + (p \div 400) + before_month[d.month] + d.day

\* (a - b).days
days(a, b) == toordinal(a) - toordinal(b)

\* Fault variant of TupleLess: the sort key is the delta alone.
TupleLess_delta_only(a, b) == FLt(a[1], b[1])

\* Python's "<" on the sort keys, tuples (float, float, str): the first
\* position where the two differ decides.
TupleLess(a, b) ==
    IF ~FEq(a[1], b[1]) THEN FLt(a[1], b[1])
    ELSE IF ~FEq(a[2], b[2]) THEN FLt(a[2], b[2])
    ELSE StrLess(a[3], b[3])

\* sorted(items, key=..., reverse=True) on items <<key, event>>: descending
\* keys, items of equal keys in their original order (the sort is stable).
RECURSIVE InsertReverse(_, _)
InsertReverse(item, sorted) ==
    IF sorted = <<>> THEN <<item>>
    ELSE IF TupleLess(sorted[1][1], item[1]) THEN <<item>> \o sorted
    ELSE <<sorted[1]>> \o InsertReverse(item, Tail(sorted))

RECURSIVE sorted_reverse(_)
sorted_reverse(items) ==
    IF items = <<>> THEN <<>>
    ELSE InsertReverse(items[Len(items)], sorted_reverse(SubSeq(items, 1, Len(items) - 1)))

\* sorted_events[:limit]
FirstN(seq, limit) == SubSeq(seq, 1, IF Len(seq) < limit THEN Len(seq) ELSE limit)

\* A line of a glow-up section: the fields the f-string prints.
GlowupLine(event) ==
    [name |-> event.name, key |-> event.key, delta |-> event.delta, new |-> event.new,
     location |-> event.location, source_file |-> event.source_file]

format_increases(events, limit) ==
    IF events = <<>>
    THEN [title |-> "Biggest glow-ups (no qualifying improvements)", lines |-> <<>>]
    ELSE LET sorted_events ==
                 sorted_reverse([i \in 1..Len(events) |->
                     <<<<events[i].delta, events[i].new, events[i].name>>, events[i]>>])
             top == FirstN(sorted_events, limit)
         IN  [title |-> "Biggest glow-ups (excluding brand new records)",
              lines |-> [i \in 1..Len(top) |-> GlowupLine(top[i][2])]]

format_open_glowups(events, limit) ==
    IF events = <<>>
    THEN [title |-> "Open division glow-ups (no qualifying improvements)", lines |-> <<>>]
    ELSE LET sorted_events ==
                 sorted_reverse([i \in 1..Len(events) |->
                     <<<<events[i].delta, events[i].new, events[i].name>>, events[i]>>])
             top == FirstN(sorted_events, limit)
         IN  [title |-> "Open division glow-ups (tested + untested, excluding brand new records)",
              lines |-> [i \in 1..Len(top) |-> GlowupLine(top[i][2])]]

\* Every event has a previous_date (a date is never falsy), so every event
\* gets an age.
format_oldest_broken(events, limit) ==
    LET age_events == [i \in 1..Len(events) |->
                          <<days(events[i].current_date, events[i].previous_date),
                            events[i]>>]
        sorted_events ==
            sorted_reverse([i \in 1..Len(age_events) |->
                <<<<Num(age_events[i][1]), age_events[i][2].new, age_events[i][2].name>>,
                  age_events[i]>>])
        top == FirstN(sorted_events, limit)
        Line(age_days, event) ==
            [name |-> event.name, key |-> event.key,
             age_text |-> IF event.previous_has_exact_date
                          THEN [days |-> age_days]
                          ELSE [years |-> event.current_date.year - event.previous_date.year],
             new |-> event.new, location |-> event.location,
             source_file |-> event.source_file,
             previous_date |-> event.previous_date,
             previous_source_file |-> event.previous_source_file]
    IN  [title |-> "Oldest records finally broken",
         lines |-> [i \in 1..Len(top) |-> Line(top[i][2][1], top[i][2][2])]]

\* print_report, of the report build_report returned: the totals and the
\* three sections made from the event lists.
print_report ==
    [total_broken |-> total_broken,
     total_increase |-> total_increase,
     new_records |-> new_records,
     unique_people |-> Cardinality(DOMAIN name_counts),
     increases |-> format_increases(increase_events, DefaultLimit),
     open_glowups |-> format_open_glowups(open_increase_events, DefaultLimit),
     oldest_broken |-> format_oldest_broken(increase_events, DefaultLimit)]

----------------------------------------------------------------------------
(* The inputs of the model.                                                *)

File(name) == [name |-> name, is_file |-> TRUE]

Directory(name) == [name |-> name, is_file |-> FALSE]

\* The directories that are replayed, each as iterdir() enumerates it: none
\* in sorted order.  An empty one; one without a record file; two year files;
\* a dated file and one with month 00; a file whose date does not exist;
\* a dated file of the year before, with an entry that is no record file.
ReplayDirectories ==
    {<<>>,
     <<File(<<"n","o","t","e","s",".","c","s","v">>)>>,
     <<File(<<"2","0","2","4",".","c","s","v">>), File(<<"2","0","2","3",".","c","s","v">>)>>,
     <<File(<<"2","0","2","4","-","0","1","-","1","0",".","c","s","v">>), File(<<"2","0","2","4","-","0","0","-","1","5",".","c","s","v">>)>>,
     <<File(<<"2","0","2","4","-","0","2","-","3","0",".","c","s","v">>), File(<<"2","0","2","3",".","c","s","v">>)>>,
     <<File(<<"2","0","2","4",".","c","s","v">>), File(<<"n","o","t","e","s",".","c","s","v">>), File(<<"2","0","2","3","-","1","2","-","2","4",".","c","s","v">>)>>}

\* The entries the sequencers alone are tried on, in every order.
SeqEntries ==
    {File(<<"2","0","2","3",".","c","s","v">>), File(<<"2","0","2","4",".","c","s","v">>), File(<<"2","0","2","4","-","0","0","-","1","5",".","c","s","v">>),
     File(<<"2","0","2","4","-","0","1","-","1","0",".","c","s","v">>), File(<<"2","0","2","4","-","0","2","-","3","0",".","c","s","v">>), File(<<"n","o","t","e","s",".","c","s","v">>),
     File(<<"2","0","2","4","-","0","0","-","0","0",".","c","s","v">>), File(<<"2","0","2","4",".","t","x","t">>), Directory(<<"2","0","2","2",".","c","s","v">>)}

TargetYears == {2023, 2024}

K_OPEN == <<"M","|","O","p","e","n","|","S","B","D","|","S","l","e","e","v","e","s","|","9","0","|","S">>

K_UNKNOWN == <<"X","|","F","o","o","-","D","|","S","B","D","|","R","a","w","|","9","0","|","S">>

\* The raw csv rows a file is made of.
RawRows ==
    {<<>>,
     <<K_OPEN>>,
     <<K_OPEN, <<"2">>>>,
     <<K_OPEN, <<"x">>, <<"A">>>>,
     <<<<" ">>, <<"1">>, <<"A">>>>,
     <<K_OPEN, <<"1">>, <<"A">>>>,
     <<K_OPEN, <<"n","a","n">>, <<"A">>>>,
     <<<<" ">> \o K_OPEN \o <<" ">>, <<" ","3"," ">>, <<" ","B"," ">>, <<"x">>, <<" ","O","u","l","u"," ">>>>,
     <<K_UNKNOWN, <<"1">>, <<"A">>>>,
     <<K_UNKNOWN, <<"2">>, <<"A">>, <<>>, <<"O","u","l","u">>>>}

\* The keys the keyspace is tried on: every combination of the vocabularies,
\* and of a sex, a division and a weight class that are in none.
KeyRows ==
    {<<KeyString(sex, division, event, eq, weight, lift), <<"1">>, <<"A">>>> :
        sex \in Range(SEXES) \cup {<<"X">>},
        division \in divisions_add_tested \cup {<<"F","o","o">>},
        event \in Range(EVENTS),
        eq \in Range(EQUIPMENT),
        weight \in Range(MALE_CLASSES) \cup Range(FEMALE_CLASSES) \cup {<<"9","9","9">>},
        lift \in Range(LIFTS)}

K_OPEN_D == <<"M","|","O","p","e","n","-","D","|","S","B","D","|","S","l","e","e","v","e","s","|","9","0","|","S">>

K_YOUTH_D == <<"F","|","Y","o","u","t","h","-","D","|","B","|","R","a","w","|","5","2","|","B">>

\* The rows the report is tried on: three keys (Open, Open-D, Youth-D) with
\* rising weights, so that improvements tie on delta, on delta and new
\* weight, and on delta, new weight and name.
ReportRows ==
    {<<K_OPEN, <<"1">>, <<"A">>>>,
     <<K_OPEN, <<"2">>, <<"A">>, <<>>, <<"O","u","l","u">>>>,
     <<K_OPEN, <<"3">>, <<"B">>>>,
     <<K_YOUTH_D, <<"1">>, <<"B">>>>,
     <<K_YOUTH_D, <<"2">>, <<"A">>, <<>>, <<"O","u","l","u">>>>,
     <<K_YOUTH_D, <<"2">>, <<"B">>, <<>>, <<"T","u","r","k","u">>>>,
     <<K_OPEN_D, <<"1">>, <<"A">>>>,
     <<K_OPEN_D, <<"3">>, <<"A">>, <<>>, <<"T","u","r","k","u">>>>}

\* The directories the report is made of: two year files, two dated files.
ReportDirectories ==
    {<<File(<<"2","0","2","4",".","c","s","v">>), File(<<"2","0","2","3",".","c","s","v">>)>>,
     <<File(<<"2","0","2","4","-","0","1","-","1","0",".","c","s","v">>), File(<<"2","0","2","3","-","1","2","-","2","4",".","c","s","v">>)>>}

\* Every enumeration order of every set of at most n of the entries.
Listings(entries, n) ==
    UNION {{f \in [1..Cardinality(S) -> S] : \A i, j \in DOMAIN f : f[i] = f[j] => i = j} :
           S \in {T \in SUBSET entries : Cardinality(T) <= n}}

----------------------------------------------------------------------------
(* The state machine.                                                      *)

\* min_columns before any row is read: more columns than any row has.
NoRowYet ==
    1 + CHOOSE n \in {Len(raw) : raw \in RawRows} : \A raw \in RawRows : Len(raw) <= n

InitRest ==
    /\ target_year \in TargetYears
    /\ c_pc = "init"
    /\ w_pc = "init"
    /\ c_files = <<>>
    /\ w_files = <<>>
    /\ file_index = 0
    /\ line_no = 0
    /\ row = <<>>
    /\ rows_read = 0
    /\ min_columns = NoRowYet
    /\ c_records = EmptyDict
    /\ c_warnings = <<>>
    /\ c_stdout = <<>>
    /\ c_seen = {}
    /\ w_records = EmptyDict
    /\ total_broken = 0
    /\ new_records = 0
    /\ location_counts = EmptyDict
    /\ name_counts = EmptyDict
    /\ name_counts_untested = EmptyDict
    /\ name_counts_tested = EmptyDict
    /\ increase_events = <<>>
    /\ open_increase_events = <<>>
    /\ name_increase_totals = EmptyDict
    /\ total_increase = Num(0)
    /\ w_seen = {}
    /\ w_stdout = None

Init ==
    /\ listing \in ReplayDirectories
    /\ InitRest

InitSeq ==
    /\ listing \in Listings(SeqEntries, MaxListing)
    /\ InitRest

\* Both mains list the directory; check_files returns at once on no files,
\* build_report's loop over no files ends at once.
Start ==
    /\ c_pc = "init"
    /\ w_pc = "init"
    /\ c_files' = sorted_record_files(listing)
    /\ w_files' = sorted_event_files(listing)
    /\ IF no_files(c_files')
       THEN c_warnings' = Append(c_warnings, NoFilesWarning) /\ c_pc' = "returned"
       ELSE c_warnings' = c_warnings /\ c_pc' = "loop"
    /\ w_pc' = IF w_files' = <<>> THEN "returned" ELSE "loop"
    /\ w_stdout' = IF w_files' = <<>> THEN print_report ELSE w_stdout
    /\ UNCHANGED <<listing, target_year, file_index, line_no, row, rows_read, min_columns,
                   c_records, c_stdout, c_seen, w_vars>>

\* Both outer loops move to the next file; build_report calls make_date on it.
NextFile ==
    /\ c_pc = "loop"
    /\ file_index < Len(c_files)
    /\ file_index' = file_index + 1
    /\ line_no' = 0
    /\ w_pc' = IF w_pc = "loop"
                  /\ LET parsed == w_files[file_index + 1][1]
                     IN  make_date_raises(parsed[1], parsed[2], parsed[3])
               THEN "raised" ELSE w_pc
    /\ UNCHANGED <<listing, target_year, c_pc, c_files, w_files, row, rows_read, min_columns, c_vars,
                   w_vars, w_stdout>>

\* Both readers read the next raw row of the current file.
Read(raw) ==
    /\ c_pc = "loop"
    /\ file_index >= 1
    /\ rows_read' = rows_read + 1
    /\ row' = raw
    /\ min_columns' = IF Len(raw) < min_columns THEN Len(raw) ELSE min_columns
    /\ line_no' = line_no + 1
    /\ c_step(c_files[file_index][2], line_no + 1, raw)
    /\ IF w_pc = "loop"
       THEN w_step(w_files[file_index][1], w_files[file_index][2], raw)
       ELSE UNCHANGED w_vars
    /\ UNCHANGED <<listing, target_year, c_pc, w_pc, c_files, w_files, file_index, w_stdout>>

ReadRow(raw) == rows_read < MaxRows /\ Read(raw)

\* The last file is exhausted: check_files returns warnings, build_report its report.
Return ==
    /\ c_pc = "loop"
    /\ file_index = Len(c_files)
    /\ c_pc' = "returned"
    /\ w_pc' = IF w_pc = "loop" THEN "returned" ELSE w_pc
    /\ w_stdout' = IF w_pc = "loop" THEN print_report ELSE w_stdout
    /\ UNCHANGED <<listing, target_year, c_files, w_files, file_index, line_no,
                   row, rows_read, min_columns, c_vars, w_vars>>

Next ==
    \/ Start
    \/ NextFile
    \/ \E raw \in RawRows : ReadRow(raw)
    \/ Return

Spec == Init /\ [][Next]_vars

NextSeq == Start

SpecSeq == InitSeq /\ [][NextSeq]_vars

\* One file of one row, the row's key drawn from KeyRows.
InitKey ==
    /\ listing = <<File(<<"2","0","2","3",".","c","s","v">>)>>
    /\ InitRest

ReadKeyRow == rows_read = 0 /\ \E raw \in KeyRows : ReadRow(raw)

NextKey ==
    \/ Start
    \/ NextFile
    \/ ReadKeyRow
    \/ Return

SpecKey == InitKey /\ [][NextKey]_vars

\* A replay of the report's rows.
InitReport ==
    /\ listing \in ReportDirectories
    /\ InitRest

ReadReportRow == rows_read < MaxReportRows /\ \E raw \in ReportRows : Read(raw)

NextReport ==
    \/ Start
    \/ NextFile
    \/ ReadReportRow
    \/ Return

SpecReport == InitReport /\ [][NextReport]_vars

----------------------------------------------------------------------------
(* What the properties below speak of.                                     *)

\* The step just taken read a raw row (ReadRow).
RowRead == rows_read' = rows_read + 1

\* The attempt each reader makes of the row read last, if any.
c_attempt == read_rows(row)

w_attempt == w_read_rows(row)

\* The same, of the row the step reads.
c_attempt_read == read_rows(row')

w_attempt_read == w_read_rows(row')

\* The file being read, as each script names it.
c_file == c_files[file_index][2]

w_file == w_files[file_index][2]

\* The weights attempted so far for a key, in each mode.
c_weights(key) == {a.weight : a \in {x \in c_seen : x.key = key}}

w_weights(key) == {a.weight : a \in {x \in w_seen : x.key = key}}

\* w is a maximum of the weights S: one of them, and none of them is greater.
IsMaximum(w, S) == w \in S /\ \A x \in S : ~FGt(x, w)

Last(seq) == seq[Len(seq)]

\* Every aggregate of the report is as it was.
AggregatesUnchanged ==
    UNCHANGED <<total_broken, new_records, location_counts, name_counts,
                name_counts_untested, name_counts_tested, increase_events,
                open_increase_events, name_increase_totals, total_increase>>

----------------------------------------------------------------------------
(* C1  Monotonicity invariant: in both modes, after any prefix of the      *)
(* replay, the ledger holds exactly the keys that have appeared, each with *)
(* the maximum of the weights attempted for it so far.                     *)

C1_ValidationLedgerIsMaximum ==
    /\ DOMAIN c_records = {a.key : a \in c_seen}
    /\ \A key \in DOMAIN c_records : IsMaximum(c_records[key][1], c_weights(key))

C1_AnalyticsLedgerIsMaximum ==
    /\ DOMAIN w_records = {a.key : a \in w_seen}
    /\ \A key \in DOMAIN w_records : IsMaximum(w_records[key][1], w_weights(key))

C1_Monotonicity == C1_ValidationLedgerIsMaximum /\ C1_AnalyticsLedgerIsMaximum

----------------------------------------------------------------------------
(* C2  Tie is not an improvement: in both modes an attempt whose weight    *)
(* equals the ledger's weight for its key leaves the ledger as it is; in   *)
(* analytics mode no counter moves and no event is appended.               *)

C2_ValidationTie ==
    (/\ c_attempt_read # <<>>
     /\ c_attempt_read[1].key \in DOMAIN c_records
     /\ FEq(c_attempt_read[1].weight, c_records[c_attempt_read[1].key][1]))
    => c_records' = c_records

C2_AnalyticsTie ==
    (/\ w_pc = "loop"
     /\ w_attempt_read # <<>>
     /\ w_attempt_read[1].key \in DOMAIN w_records
     /\ FEq(w_attempt_read[1].weight, w_records[w_attempt_read[1].key][1]))
    => w_records' = w_records /\ AggregatesUnchanged

C2_TieIsNotAnImprovement ==
    [][RowRead => C2_ValidationTie /\ C2_AnalyticsTie]_vars

\* A tie has just been read in both modes, in a later file than the one that
\* set the entry, in the target year.
C2_Witness ==
    /\ rows_read > 0
    /\ c_attempt # <<>> /\ w_attempt # <<>>
    /\ w_pc = "loop"
    /\ in_target_year(w_files[file_index][1][1])
    /\ c_attempt[1].key \in DOMAIN c_records
    /\ FEq(c_attempt[1].weight, c_records[c_attempt[1].key][1])
    /\ c_records[c_attempt[1].key][2] # c_file
    /\ w_attempt[1].key \in DOMAIN w_records
    /\ FEq(w_attempt[1].weight, w_records[w_attempt[1].key][1])
    /\ w_records[w_attempt[1].key][3] # w_file

----------------------------------------------------------------------------
(* C3  Classification partition: every parsed attempt is in exactly one of *)
(* new-record (no entry for its key), improvement (entry, weight > entry)  *)
(* and no-op/violation (entry, weight <= entry), as the ledger stood       *)
(* before it; the entry is written in the first two classes and in no      *)
(* other case.                                                             *)

NewRecordClass(a, records) == a.key \notin DOMAIN records

ImprovementClass(a, records) ==
    a.key \in DOMAIN records /\ FGt(a.weight, records[a.key][1])

NoOpClass(a, records) ==
    a.key \in DOMAIN records /\ FLe(a.weight, records[a.key][1])

ExactlyOneClass(a, records) ==
    Cardinality({i \in 1..3 : <<NewRecordClass(a, records), ImprovementClass(a, records),
                                NoOpClass(a, records)>>[i]}) = 1

C3_ValidationPartition ==
    c_attempt_read # <<>> =>
        LET a == c_attempt_read[1]
        IN  /\ ExactlyOneClass(a, c_records)
            /\ IF NewRecordClass(a, c_records) \/ ImprovementClass(a, c_records)
               THEN c_records' = Put(c_records, a.key, <<a.weight, c_file>>)
               ELSE c_records' = c_records

C3_AnalyticsPartition ==
    (w_pc = "loop" /\ w_attempt_read # <<>>) =>
        LET a == w_attempt_read[1]
        IN  /\ ExactlyOneClass(a, w_records)
            /\ IF NewRecordClass(a, w_records) \/ ImprovementClass(a, w_records)
               THEN /\ DOMAIN w_records' = DOMAIN w_records \cup {a.key}
                    /\ w_records'[a.key][1] = a.weight
                    /\ w_records'[a.key][3] = w_file
                    /\ \A k \in DOMAIN w_records \ {a.key} : w_records'[k] = w_records[k]
               ELSE w_records' = w_records

C3_ClassificationPartition ==
    [][RowRead => C3_ValidationPartition /\ C3_AnalyticsPartition]_vars

----------------------------------------------------------------------------
(* C4  Full-history baseline (analytics): attempts of every year create    *)
(* and raise ledger entries; an IncreaseEvent is emitted only for a        *)
(* target-year attempt, with previous the maximum of all earlier attempts  *)
(* for the key in any file, new the attempt's weight, delta = new -        *)
(* previous > 0 and previous_source_file the file that set the previous    *)
(* weight; an attempt counts as brand-new only if its key has no earlier   *)
(* attempt in any file.                                                    *)

\* Position of a file in the sequenced list.
w_position(file) == CHOOSE i \in 1..Len(w_files) : w_files[i][2] = file

\* The first file, in replay order, with an attempt of this weight for the key.
w_first_file_with(key, weight) ==
    LET having == {a.file : a \in {x \in w_seen : x.key = key /\ FEq(x.weight, weight)}}
    IN  CHOOSE f \in having : \A g \in having : w_position(f) <= w_position(g)

C4_Step ==
    (w_pc = "loop" /\ w_attempt_read # <<>>) =>
        LET a == w_attempt_read[1]
            year == w_files[file_index][1][1]
            earlier == w_weights(a.key)
            emitted == Len(increase_events') = Len(increase_events) + 1
            e == Last(increase_events')
        IN  /\ (a.key \notin DOMAIN w_records \/ FGt(a.weight, w_records[a.key][1]))
                  => /\ a.key \in DOMAIN w_records'
                     /\ w_records'[a.key][1] = a.weight
                     /\ w_records'[a.key][3] = w_file
            /\ emitted \/ increase_events' = increase_events
            /\ emitted =>
                  /\ year = target_year
                  /\ SubSeq(increase_events', 1, Len(increase_events)) = increase_events
                  /\ e.key = a.key
                  /\ e.source_file = w_file
                  /\ IsMaximum(e.previous, earlier)
                  /\ e.new = a.weight
                  /\ e.delta = FSub(e.new, e.previous)
                  /\ FGt(e.delta, Num(0))
                  /\ e.previous_source_file = w_first_file_with(a.key, e.previous)
            /\ new_records' = new_records + 1 <=> (year = target_year /\ earlier = {})
            /\ new_records' = new_records + 1 \/ new_records' = new_records

C4_FullHistoryBaseline == [][RowRead => C4_Step]_vars

\* An event of the target year whose baseline was set by a file of another year.
C4_Witness ==
    /\ increase_events # <<>>
    /\ LET e == Last(increase_events)
       IN  /\ w_parse_filename(e.source_file)[1] = target_year
           /\ w_parse_filename(e.previous_source_file)[1] # target_year
           /\ FGt(e.new, e.previous)

----------------------------------------------------------------------------
(* C5  Non-increasing violation (validation): an attempt whose key has an  *)
(* entry and whose weight is <= the entry's appends exactly one            *)
(* non-increasing warning, naming the attempt's weight, the ledger's       *)
(* weight and the file that set it, and leaves the ledger as it is.        *)

C5_Step ==
    (/\ c_attempt_read # <<>>
     /\ c_attempt_read[1].key \in DOMAIN c_records
     /\ FLe(c_attempt_read[1].weight, c_records[c_attempt_read[1].key][1]))
    => LET a == c_attempt_read[1]
           added == SubSeq(c_warnings', Len(c_warnings) + 1, Len(c_warnings'))
           found == {i \in 1..Len(added) : added[i].kind = "non_increasing"}
       IN  /\ c_records' = c_records
           /\ Len(c_warnings') >= Len(c_warnings)
           /\ SubSeq(c_warnings', 1, Len(c_warnings)) = c_warnings
           /\ Cardinality(found) = 1
           /\ \A i \in found :
                 /\ added[i].key = a.key
                 /\ added[i].file = c_file
                 /\ added[i].line = line_no'
                 /\ added[i].weight = a.weight
                 /\ added[i].prev_weight = c_records[a.key][1]
                 /\ added[i].prev_source = c_records[a.key][2]
                 /\ [key |-> a.key, weight |-> added[i].prev_weight,
                     file |-> added[i].prev_source] \in c_seen

C5_NonIncreasingViolation == [][RowRead => C5_Step]_vars

\* A strictly lower attempt has just been reported against an entry that an
\* earlier file set.
C5_Witness ==
    /\ c_warnings # <<>>
    /\ LET w == Last(c_warnings)
       IN  /\ w.kind = "non_increasing"
           /\ FGt(w.prev_weight, w.weight)
           /\ w.prev_source # w.file
           /\ w.file = c_file /\ w.line = line_no
           /\ c_records[w.key] = <<w.prev_weight, w.prev_source>>

----------------------------------------------------------------------------
(* C6  Unrecognized key (validation): an attempt whose key is outside the  *)
(* keyspace appends an unrecognized-key warning, whatever the monotonicity *)
(* check says, and still takes part in the ledger: it creates the entry,   *)
(* raises it on a strictly greater weight, and on a lower or equal weight  *)
(* gets the non-increasing warning as well.                                *)

C6_Step ==
    (c_attempt_read # <<>> /\ c_attempt_read[1].key \notin valid_keyset)
    => LET a == c_attempt_read[1]
           n == Len(c_warnings)
       IN  /\ Len(c_warnings') > n
           /\ SubSeq(c_warnings', 1, n) = c_warnings
           /\ c_warnings'[n + 1] =
                  [kind |-> "unrecognized", key |-> a.key, file |-> c_file,
                   line |-> line_no', name |-> a.name]
           /\ a.key \notin DOMAIN c_records =>
                  /\ c_records' = Put(c_records, a.key, <<a.weight, c_file>>)
                  /\ Len(c_warnings') = n + 1
           /\ (a.key \in DOMAIN c_records /\ FGt(a.weight, c_records[a.key][1])) =>
                  /\ c_records' = Put(c_records, a.key, <<a.weight, c_file>>)
                  /\ Len(c_warnings') = n + 1
           /\ (a.key \in DOMAIN c_records /\ FLe(a.weight, c_records[a.key][1])) =>
                  /\ c_records' = c_records
                  /\ Len(c_warnings') = n + 2
                  /\ c_warnings'[n + 2].kind = "non_increasing"
                  /\ c_warnings'[n + 2].key = a.key

C6_UnrecognizedKey == [][RowRead => C6_Step]_vars

\* Both warnings for one row: an unknown key, ledgered earlier, attempted again
\* with a weight that is not greater.
C6_Witness ==
    /\ Len(c_warnings) >= 2
    /\ LET u == c_warnings[Len(c_warnings) - 1]
           v == Last(c_warnings)
       IN  /\ u.kind = "unrecognized" /\ v.kind = "non_increasing"
           /\ u.key = v.key /\ u.file = v.file /\ u.line = v.line
           /\ u.key \notin valid_keyset
           /\ u.key \in DOMAIN c_records

----------------------------------------------------------------------------
(* C7  Mode equivalence of the ledger: as long as every row read has at    *)
(* least three columns, the validation ledger and the analytics ledger     *)
(* hold the same keys, each with the same weight and source file.          *)

C7_ModeEquivalence ==
    (min_columns >= 3 /\ w_pc # "raised") =>
        /\ DOMAIN c_records = DOMAIN w_records
        /\ \A key \in DOMAIN c_records :
              /\ c_records[key][1] = w_records[key][1]
              /\ c_records[key][2] = w_records[key][3]

----------------------------------------------------------------------------
(* C8  The sequencer is an order-independent total sort: it returns        *)
(* exactly the files named YYYY.csv or YYYY-MM-DD.csv, ascending by (year, *)
(* month, day, name) with an absent month and day taken as 0, so a         *)
(* year-only file precedes every dated file of its year; every enumeration *)
(* order of the directory gives the same list, sorting the list again      *)
(* changes nothing, and both scripts return the same list.                 *)

IsYearOnlyName(name) ==
    Len(name) = 8 /\ AllDigits(SubSeq(name, 1, 4)) /\ SubSeq(name, 5, 8) = <<".","c","s","v">>

IsDatedName(name) ==
    /\ Len(name) = 14
    /\ AllDigits(SubSeq(name, 1, 4)) /\ name[5] = "-"
    /\ AllDigits(SubSeq(name, 6, 7)) /\ name[8] = "-"
    /\ AllDigits(SubSeq(name, 9, 10)) /\ SubSeq(name, 11, 14) = <<".","c","s","v">>

Orderings(S) ==
    {f \in [1..Cardinality(S) -> S] : \A i, j \in DOMAIN f : f[i] = f[j] => i = j}

C8_ExactlyTheNamedFiles ==
    {c_files[i][2] : i \in 1..Len(c_files)} =
        {e.name : e \in {x \in Range(listing) :
                            x.is_file /\ (IsYearOnlyName(x.name) \/ IsDatedName(x.name))}}

C8_Ascending ==
    \A i, j \in 1..Len(c_files) : i < j => KeyLess(c_files[i], c_files[j])

C8_YearOnlyFirst ==
    \A i, j \in 1..Len(c_files) :
        (/\ IsYearOnlyName(c_files[i][2])
         /\ IsDatedName(c_files[j][2])
         /\ SubSeq(c_files[i][2], 1, 4) = SubSeq(c_files[j][2], 1, 4)) => i < j

C8_OrderIndependent ==
    \A other \in Orderings(Range(listing)) : sorted_record_files(other) = c_files

C8_Idempotent == sort(c_files) = c_files

C8_SameInBothScripts == w_files = c_files

C8_SequencerIsTotalSort ==
    c_pc # "init" =>
        /\ C8_ExactlyTheNamedFiles
        /\ C8_Ascending
        /\ C8_YearOnlyFirst
        /\ C8_OrderIndependent
        /\ C8_Idempotent
        /\ C8_SameInBothScripts

\* What the sequencers do guarantee: C8 without the year-only-first consequence.
C8_SortedByKey ==
    c_pc # "init" =>
        /\ C8_ExactlyTheNamedFiles
        /\ C8_Ascending
        /\ C8_OrderIndependent
        /\ C8_Idempotent
        /\ C8_SameInBothScripts

----------------------------------------------------------------------------
(* C9  Day-precision flag (analytics): an entry created or replaced has    *)
(* its flag true exactly when the file is named YYYY-MM-DD.csv, false for  *)
(* YYYY.csv; an event's previous_has_exact_date is the flag of the entry   *)
(* it displaced.                                                           *)

C9_Step ==
    (w_pc = "loop" /\ w_attempt_read # <<>>) =>
        LET a == w_attempt_read[1]
            emitted == Len(increase_events') = Len(increase_events) + 1
        IN  /\ (a.key \notin DOMAIN w_records \/ w_records'[a.key] # w_records[a.key])
                  => (w_records'[a.key][4] <=> IsDatedName(w_file))
            /\ emitted =>
                  Last(increase_events').previous_has_exact_date = w_records[a.key][4]

C9_DayPrecisionFlag == [][RowRead => C9_Step]_vars

----------------------------------------------------------------------------
(* C10  No qualifying sources (validation): on an empty file list          *)
(* check_files returns the no-files warning alone and replays nothing; on  *)
(* a non-empty list that warning is never given.                           *)

C10_NoQualifyingSources ==
    /\ (c_pc # "init" /\ c_files = <<>>) =>
          /\ c_pc = "returned"
          /\ c_warnings = <<[kind |-> "no_files"]>>
          /\ c_records = EmptyDict /\ c_seen = {}
          /\ file_index = 0 /\ rows_read = 0
    /\ c_files # <<>> =>
          \A i \in 1..Len(c_warnings) : c_warnings[i].kind # "no_files"

\* A directory that has entries, none of them a record file: the one warning.
C10_Witness ==
    /\ listing # <<>>
    /\ c_pc = "returned"
    /\ c_files = <<>>
    /\ c_warnings = <<[kind |-> "no_files"]>>

\* A replay that returned after reading rows of which none was an attempt.
C10_WitnessAllSkipped ==
    /\ c_pc = "returned"
    /\ c_files # <<>>
    /\ rows_read > 0 /\ c_seen = {}
    /\ c_warnings = <<>>

----------------------------------------------------------------------------
(* C11  Warning accumulation and order: every row read appends to the      *)
(* warning list exactly its own warnings, the unrecognized-key warning     *)
(* (key outside valid_keyset) before the non-increasing one (weight <= the *)
(* existing entry), and nothing else touches the list during the replay;   *)
(* the list is therefore in (file order, row order), as long as the number *)
(* of such rows, and the replay returns only after the last file.          *)

\* Where a warning's file stands in the checker's file order.
c_position(file) == CHOOSE i \in 1..Len(c_files) : c_files[i][2] = file

\* The warnings the row read by this step is due, in the claim's words.
C11_Due ==
    IF c_attempt_read = <<>> THEN <<>>
    ELSE LET a == c_attempt_read[1]
         IN  (IF a.key \notin valid_keyset
              THEN <<UnrecognizedWarning(a.key, c_file, line_no', a.name)>>
              ELSE <<>>)
             \o
             (IF a.key \in DOMAIN c_records /\ FLe(a.weight, c_records[a.key][1])
              THEN <<NonIncreasingWarning(a.key, c_file, line_no', a.weight,
                                          c_records[a.key][1], c_records[a.key][2])>>
              ELSE <<>>)

\* The list of a replay is in (file, row) order, unrecognized first within a row.
C11_Ordered ==
    c_files # <<>> =>
        \A i, j \in 1..Len(c_warnings) : i < j =>
            LET wi == c_warnings[i]
                wj == c_warnings[j]
                pi == c_position(wi.file)
                pj == c_position(wj.file)
            IN  \/ pi < pj
                \/ pi = pj /\ wi.line < wj.line
                \/ /\ pi = pj /\ wi.line = wj.line
                   /\ wi.kind = "unrecognized" /\ wj.kind = "non_increasing"

C11_Step ==
    /\ (c_pc = "init" /\ c_files' # <<>>) => c_warnings' = <<>>
    /\ RowRead => c_warnings' = c_warnings \o C11_Due
    /\ (c_pc = "loop" /\ ~RowRead) => c_warnings' = c_warnings
    /\ (c_pc = "loop" /\ c_pc' = "returned") => file_index = Len(c_files)
    /\ C11_Ordered'

C11_WarningAccumulation == [][C11_Step]_vars

\* Three rows alike for an unknown key: the first warned once, the second
\* and third twice each, all five kept, and the replay went on to its end.
C11_Witness ==
    /\ c_pc = "returned"
    /\ Len(c_warnings) = 5
    /\ c_warnings[2].kind = "unrecognized" /\ c_warnings[3].kind = "non_increasing"
    /\ c_warnings[2].line = c_warnings[3].line
    /\ c_warnings[4] = [c_warnings[2] EXCEPT !.line = c_warnings[4].line]
    /\ c_warnings[1].file # c_warnings[4].file

----------------------------------------------------------------------------
(* C12  Malformed rows are skipped without effect: a row that is empty,    *)
(* has fewer than the mode's minimum of columns (2 in validation, 3 in     *)
(* analytics) or whose weight does not parse yields no attempt in that     *)
(* mode and leaves the mode's ledger, the warning list and every aggregate *)
(* as they were; the mode stays in its loop and reads on.                  *)

\* The row is malformed for a mode that needs min_cols columns.
C12_Malformed(raw, min_cols) ==
    \/ raw = <<>>
    \/ Len(raw) < min_cols
    \/ ~float_parses(raw[2])

C12_Step ==
    /\ C12_Malformed(row', 2) =>
          /\ c_attempt_read = <<>>
          /\ UNCHANGED <<c_records, c_warnings, c_seen>>
          /\ c_pc' = "loop"
    /\ (C12_Malformed(row', 3) /\ w_pc = "loop") =>
          /\ w_attempt_read = <<>>
          /\ UNCHANGED w_vars
          /\ w_pc' = "loop"

C12_MalformedRowsSkipped == [][RowRead => C12_Step]_vars

\* A file whose first row has a weight that does not parse, and whose second
\* and third rows were processed all the same: an entry and a warning on row 3.
C12_Witness ==
    /\ c_pc = "returned" /\ w_pc = "returned"
    /\ c_stdout # <<>> /\ c_stdout[1].line = 1
    /\ \E i \in 1..Len(c_warnings) :
           /\ c_warnings[i].kind = "non_increasing"
           /\ c_warnings[i].line = 3
           /\ c_warnings[i].file = c_stdout[1].file
    /\ DOMAIN w_records # {}

\* A two-column row: an attempt for validation, malformed for the analytics.
C12_WitnessTwoColumns ==
    /\ row = <<K_OPEN, <<"2">>>>
    /\ w_pc = "loop"
    /\ K_OPEN \in DOMAIN c_records /\ K_OPEN \notin DOMAIN w_records

----------------------------------------------------------------------------
(* C13  Keyspace legality: a key sex|division|event|equipment|class|lift   *)
(* is in valid_keyset() (check_files gives no unrecognized-key warning for *)
(* it) if and only if the sex is M or F, the class is one of that sex's,   *)
(* the division is an enumerated one with or without -D, the lift is       *)
(* allowed for the event, Unlimited goes with lift B in event B only,      *)
(* lifts B and D use none of Bare, Sleeves, Wraps, and lifts S and SBD do  *)
(* not use Raw; a division and its -D form get the same verdict.           *)

C13_Legal(sex, division, event, eq, weight, lift) ==
    /\ sex \in {<<"M">>, <<"F">>}
    /\ sex = <<"M">> => weight \in Range(MALE_CLASSES)
    /\ sex = <<"F">> => weight \in Range(FEMALE_CLASSES)
    /\ \E div \in Range(DIVISIONS) : division = div \/ division = div \o <<"-","D">>
    /\ event = <<"B">> => lift = <<"B">>
    /\ event = <<"D">> => lift = <<"D">>
    /\ event = <<"S","B","D">> => lift \in {<<"S">>, <<"B">>, <<"D">>, <<"S","B","D">>}
    /\ eq = <<"U","n","l","i","m","i","t","e","d">> => (lift = <<"B">> /\ event = <<"B">>)
    /\ lift \in {<<"B">>, <<"D">>} => eq \notin {<<"B","a","r","e">>, <<"S","l","e","e","v","e","s">>, <<"W","r","a","p","s">>}
    /\ lift \in {<<"S">>, <<"S","B","D">>} => eq # <<"R","a","w">>

\* check_files took the key of the row read last for unrecognized.
C13_Warned ==
    \E i \in 1..Len(c_warnings) :
        c_warnings[i].kind = "unrecognized" /\ c_warnings[i].key = row[1]

C13_KeyspaceLegality ==
    rows_read = 1 =>
        LET p == split(row[1], "|")
        IN  /\ Len(p) = 6
            /\ ~C13_Warned <=> C13_Legal(p[1], p[2], p[3], p[4], p[5], p[6])
            /\ p[2] \in Range(DIVISIONS) =>
                  (~C13_Warned <=>
                      KeyString(p[1], p[2] \o <<"-","D">>, p[3], p[4], p[5], p[6])
                          \in valid_keyset)

\* The one legal use of Unlimited, in a tested division, passed unwarned.
C13_Witness ==
    /\ c_pc = "returned"
    /\ rows_read = 1
    /\ row[1] = <<"F","|","M","4","0","-","4","4","-","D","|","B","|","U","n","l","i","m","i","t","e","d","|","4","4","|","B">>
    /\ c_warnings = <<>>
    /\ row[1] \in DOMAIN c_records

\* Unlimited on the bench lift of a full meet is warned about.
C13_WitnessIllegal ==
    /\ c_pc = "returned"
    /\ rows_read = 1
    /\ row[1] = <<"M","|","O","p","e","n","|","S","B","D","|","U","n","l","i","m","i","t","e","d","|","9","0","|","B">>
    /\ C13_Warned

----------------------------------------------------------------------------
(* C14  Deterministic glow-up ranking: each ranked list (overall and Open) *)
(* is the first N of its events in descending order of delta, then of new  *)
(* weight, then of lifter name; what it shows of (delta, new, name) is the *)
(* same for every order the events could have been emitted in; and every   *)
(* line is an improvement over an earlier attempt, never a new record.     *)

\* The limits the ranking is tried with: a cut, and the one print_report uses.
C14_Limits == {1, 2, DefaultLimit}

\* x ranks strictly higher than y, in the claim's words.
C14_Higher(x, y) ==
    \/ FGt(x.delta, y.delta)
    \/ FEq(x.delta, y.delta) /\ FGt(x.new, y.new)
    \/ FEq(x.delta, y.delta) /\ FEq(x.new, y.new) /\ StrLess(y.name, x.name)

C14_Triples(lines) == [i \in 1..Len(lines) |-> <<lines[i].delta, lines[i].new, lines[i].name>>]

\* Every order of the events of a list.
C14_Orders(events) ==
    {[i \in 1..Len(events) |-> events[p[i]]] :
        p \in {q \in [1..Len(events) -> 1..Len(events)] :
                  \A i, j \in 1..Len(events) : q[i] = q[j] => i = j}}

C14_Ranked(events, lines, n) ==
    /\ Len(lines) = IF Len(events) < n THEN Len(events) ELSE n
    /\ \A i \in 1..Len(lines) : \E k \in 1..Len(events) : lines[i] = GlowupLine(events[k])
    /\ \A i, j \in 1..Len(lines) : i < j => lines[i] # lines[j] /\ ~C14_Higher(lines[j], lines[i])
    /\ \A i \in 1..Len(lines) :
           Cardinality({k \in 1..Len(events) : C14_Higher(events[k], lines[i])}) < i
    /\ \A i \in 1..Len(lines) :
           /\ FGt(lines[i].delta, Num(0))
           /\ \E a \in w_seen :
                  a.key = lines[i].key /\ FEq(a.weight, FSub(lines[i].new, lines[i].delta))

C14_WitnessFullTie ==
    /\ w_pc = "returned"
    /\ Len(increase_events) = 2
    /\ C14_Triples(w_stdout.increases.lines)[1] = C14_Triples(w_stdout.increases.lines)[2]
    /\ increase_events[1].key # increase_events[2].key
    /\ w_stdout.increases.lines[1] = GlowupLine(increase_events[1])

----------------------------------------------------------------------------
(* C15  Aggregate accounting (analytics): total_broken counts exactly the  *)
(* attempts of target-year files that were a new best when processed, and  *)
(* equals new_records + len(increase_events); attempts of other years move *)
(* no counter and no event list; total_increase is the sum of the deltas   *)
(* of increase_events and the sum of name_increase_totals.                 *)

RECURSIVE C15_SumDeltas(_)
C15_SumDeltas(events) ==
    IF events = <<>> THEN Num(0)
    ELSE FAdd(C15_SumDeltas(SubSeq(events, 1, Len(events) - 1)), events[Len(events)].delta)

RECURSIVE C15_SumOver(_, _)
C15_SumOver(counter, names) ==
    IF names = {} THEN Num(0)
    ELSE LET n == CHOOSE x \in names : TRUE
         IN  FAdd(C15_SumOver(counter, names \ {n}), counter[n])

C15_Balanced ==
    /\ total_broken = new_records + Len(increase_events)
    /\ total_increase = C15_SumDeltas(increase_events)
    /\ total_increase = C15_SumOver(name_increase_totals, DOMAIN name_increase_totals)

\* The attempt read by this step is a new best: its key has no entry, or its
\* weight is above the entry's.
C15_NewBest(a) ==
    \/ a.key \notin DOMAIN w_records
    \/ FGt(a.weight, w_records[a.key][1])

C15_Step ==
    w_pc = "loop" =>
        LET year == w_files[file_index][1][1]
            qualifies == /\ w_attempt_read # <<>>
                         /\ year = target_year
                         /\ C15_NewBest(w_attempt_read[1])
        IN  /\ total_broken' = total_broken + (IF qualifies THEN 1 ELSE 0)
            /\ year # target_year => AggregatesUnchanged

C15_AggregateAccounting == [][(RowRead => C15_Step) /\ C15_Balanced']_vars

\* Two improvements by one lifter in the target year, over entries that
\* files of the year before set: both counted, the new records of the year
\* before not.
C15_Witness ==
    /\ w_pc = "returned"
    /\ Len(increase_events) = 2
    /\ increase_events[1].name = increase_events[2].name
    /\ total_broken = 2 /\ new_records = 0
    /\ total_increase = Num(2)
    /\ name_increase_totals[increase_events[1].name] = Num(2)
    /\ Cardinality({a.key : a \in w_seen}) = 2

\* A new record and an improvement of it, both in the target year.
C15_WitnessNewRecord ==
    /\ w_pc = "returned"
    /\ new_records = 1 /\ Len(increase_events) = 1 /\ total_broken = 2

----------------------------------------------------------------------------
(* C16  Chronological causality of events (analytics): every IncreaseEvent *)
(* has previous_date <= current_date, so that the age in days that         *)
(* format_oldest_broken computes for it is never negative.                 *)

C16_ChronologicalCausality ==
    \A i \in 1..Len(increase_events) :
        /\ DateLe(increase_events[i].previous_date, increase_events[i].current_date)
        /\ days(increase_events[i].current_date, increase_events[i].previous_date) >= 0

\* The same of the files: the dates make_date gives are non-decreasing along
\* the sequencer's order (as far as build_report gets before date() raises).
C16_DatesNonDecreasing ==
    \A i, j \in 1..Len(w_files) :
        (i < j /\ \A k \in 1..j : ~make_date_raises(w_files[k][1][1], w_files[k][1][2],
                                                     w_files[k][1][3]))
            => DateLe(make_date(w_files[i][1][1], w_files[i][1][2], w_files[i][1][3]),
                      make_date(w_files[j][1][1], w_files[j][1][2], w_files[j][1][3]))

----------------------------------------------------------------------------
(* C17  Split tables are consistent (analytics): for every lifter,         *)
(* name_counts = name_counts_tested + name_counts_untested; the location   *)
(* counts and the name counts both add up to total_broken; and             *)
(* open_increase_events is the subsequence of increase_events, same order  *)
(* and same fields, whose key's division is Open or Open-D.                *)

RECURSIVE C17_Total(_, _)
C17_Total(counter, keys) ==
    IF keys = {} THEN 0
    ELSE LET k == CHOOSE x \in keys : TRUE
         IN  C17_Total(counter, keys \ {k}) + counter[k]

\* The division of the event's key, the second of its fields, is Open or Open-D.
C17_InOpenDivision(event) ==
    LET fields == split(event.key, "|")
    IN  Len(fields) >= 2 /\ fields[2] \in {<<"O","p","e","n">>, <<"O","p","e","n","-","D">>}

C17_SplitTablesConsistent ==
    /\ \A n \in DOMAIN name_counts \cup DOMAIN name_counts_tested
                   \cup DOMAIN name_counts_untested :
           Count(name_counts, n) = Count(name_counts_tested, n) + Count(name_counts_untested, n)
    /\ C17_Total(location_counts, DOMAIN location_counts) = total_broken
    /\ C17_Total(name_counts, DOMAIN name_counts) = total_broken
    /\ open_increase_events = SelectSeq(increase_events, C17_InOpenDivision)

\* Two improvements, the first in Youth-D and the second in Open-D: the Open
\* list holds the second alone, and both count as tested.
C17_Witness ==
    /\ w_pc = "returned"
    /\ Len(increase_events) = 2
    /\ open_increase_events = <<increase_events[2]>>
    /\ increase_events[2].key = K_OPEN_D
    /\ total_broken = 2
    /\ C17_Total(name_counts_tested, DOMAIN name_counts_tested) = 2

\* A lifter with a tested and an untested record, at two locations.
C17_WitnessBothTables ==
    /\ w_pc = "returned"
    /\ \E n \in DOMAIN name_counts :
           /\ name_counts[n] = 2
           /\ Count(name_counts_tested, n) = 1
           /\ Count(name_counts_untested, n) = 1
    /\ Cardinality(DOMAIN location_counts) = 2

=============================================================================
